---- MODULE Spec2Model ----
(***************************************************************************)
(* Cross-service contract graph of contractsLib-rag: the RagContracts      *)
(* registry constructor (singleton guard, build construction, duplicate    *)
(* and environment validation, wiring pass) and the wireConsuming()        *)
(* methods of the service environments.                                    *)
(*                                                                         *)
(* The platform base package (@ondemandenv/contracts-lib-base) is not part *)
(* of the repository.  Its constructors are modelled the way the           *)
(* repository's own test double defines them                               *)
(* (tests/rag-contracts-singleton-with-mocks.test.ts): a build registers   *)
(* itself in the registry's odmdBuilds, a consumer stores owner, id and    *)
(* producer and never raises.                                              *)
(***************************************************************************)
EXTENDS Integers, Sequences, FiniteSets, TLC

(***************************************************************************)
(* Bounds                                                                  *)
(***************************************************************************)
\* number of `new RagContracts(app)` evaluations in one process
MaxInstances == 3
\* how many times the base build constructor may push one build into
\* odmdBuilds (more than once is the duplicate registration the registry
\* validates against)
MaxRegistrations == 2
\* number of wireConsuming() calls made by callers after construction
MaxExtraWire == 1

(***************************************************************************)
(* JavaScript values                                                       *)
(***************************************************************************)
\* an optional string: `set = FALSE` is undefined, otherwise val is the
\* string as a sequence of characters
Unset == [set |-> FALSE, val |-> <<>>]
Str(s) == [set |-> TRUE, val |-> s]

\* JavaScript truthiness of an optional string: undefined and "" are falsy
Truthy(v) == v.set /\ Len(v.val) > 0

RECURSIVE SplitFrom(_, _, _)
\* String.prototype.split(sep) for a one-character separator: `acc` is the
\* segment being collected
SplitFrom(s, sep, acc) ==
    IF s = <<>> THEN <<acc>>
    ELSE IF Head(s) = sep THEN <<acc>> \o SplitFrom(Tail(s), sep, <<>>)
    ELSE SplitFrom(Tail(s), sep, Append(acc, Head(s)))

Split(s, sep) == SplitFrom(s, sep, <<>>)

\* array[i] with a 0-based index: undefined when out of range
At(arr, i) == IF i + 1 <= Len(arr) THEN Str(arr[i + 1]) ELSE Unset

(***************************************************************************)
(* Process environment                                                     *)
(***************************************************************************)
EnvVars == {"CDK_CLI_VERSION", "CDK_DEFAULT_REGION", "CDK_DEFAULT_ACCOUNT",
            "CODEBUILD_BUILD_ARN"}

\* arn:aws:codebuild:region:account:build/x, with one character per part
ArnWithAccount == <<"a", ":", "a", ":", "a", ":", "r", ":", "1", ":", "b">>
ArnEmptyAccount == <<"a", ":", "a", ":", "a", ":", "r", ":", ":", "b">>
ArnShort == <<"a", ":", "a">>

EnvValues(v) ==
    CASE v = "CDK_CLI_VERSION" -> {Unset, Str(<<"2">>)}
      [] v = "CDK_DEFAULT_REGION" -> {Unset, Str(<<>>), Str(<<"r">>)}
      [] v = "CDK_DEFAULT_ACCOUNT" -> {Unset, Str(<<>>), Str(<<"1">>)}
      [] v = "CODEBUILD_BUILD_ARN" ->
            {Unset, Str(<<>>), Str(ArnShort), Str(ArnEmptyAccount),
             Str(ArnWithAccount)}

Envs == {f \in [EnvVars -> UNION {EnvValues(v) : v \in EnvVars}] :
            \A v \in EnvVars : f[v] \in EnvValues(v)}

(***************************************************************************)
(* Builds and environments                                                 *)
(***************************************************************************)
ragDocumentIngestionBuild == "ragIngest"
ragDocumentProcessingBuild == "ragProc"
ragEmbeddingBuild == "ragEmbed"
ragVectorStorageBuild == "ragStore"
ragKnowledgeRetrievalBuild == "ragRetr"
ragGenerationBuild == "ragGeneration"
userAuth == "userAuth"
contractsLibBuild == "rag-contracts-npm"
networking == "networking"

\* the builds the registry constructor creates itself, in source order
\* ServiceBuildOrder with the embedding build created before the
\* processing build
ServiceBuildOrder_EmbeddingFirst ==
    <<ragDocumentIngestionBuild, ragEmbeddingBuild, ragDocumentProcessingBuild,
      ragVectorStorageBuild, ragKnowledgeRetrievalBuild, ragGenerationBuild>>

ServiceBuildOrder ==
    <<ragDocumentIngestionBuild, ragDocumentProcessingBuild, ragEmbeddingBuild,
      ragVectorStorageBuild, ragKnowledgeRetrievalBuild, ragGenerationBuild>>

\* the builds the base constructor creates through the initialize hooks
BaseBuildOrder == <<contractsLibBuild, userAuth, networking>>

Range(s) == {s[k] : k \in DOMAIN s}

ServiceBuilds == Range(ServiceBuildOrder)
Builds == ServiceBuilds \cup Range(BaseBuildOrder)

\* build.envers, in order
EnversOf(b) ==
    IF b \in ServiceBuilds THEN << <<b, "dev">>, <<b, "prod">> >>
    ELSE IF b = userAuth THEN << <<userAuth, "odmd-rag">> >>
    ELSE <<>>

Envers == UNION {Range(EnversOf(b)) : b \in Builds}

NoEnver == <<"undefined", "undefined">>

userAuthEnver == EnversOf(userAuth)[1]

\* RagDocumentProcessingEnver.ingestionEnver, the constructor argument
\* passed by RagDocumentProcessingBuild.initializeEnvers
ingestionEnver(e) ==
    IF e[1] = ragDocumentProcessingBuild
    THEN <<ragDocumentIngestionBuild, e[2]>>
    ELSE NoEnver

(***************************************************************************)
(* Producer trees                                                          *)
(***************************************************************************)
Leaf(p) == [pathPart |-> p, children |-> <<>>]

\* the `children` option each producer class passes to its base constructor
ProducerChildren(b, p) ==
    CASE b = ragDocumentIngestionBuild /\ p = "documentStorageResources" ->
            <<Leaf("document-bucket"), Leaf("quarantine-bucket"),
              Leaf("document-metadata-schema-s3-url")>>
      [] b = ragDocumentProcessingBuild /\ p = "processedContentStorage" ->
            <<Leaf("processed-content-bucket"),
              Leaf("processing-status-bucket")>>
      [] b = ragDocumentProcessingBuild /\ p = "statusApi" ->
            <<Leaf("status-api-endpoint"), Leaf("status-response-schema")>>
      [] b = ragEmbeddingBuild /\ p = "embeddingStorage" ->
            <<Leaf("embeddings-bucket")>>
      [] b = ragEmbeddingBuild /\ p = "statusApi" ->
            <<Leaf("status-api-endpoint"), Leaf("status-response-schema")>>
      [] b = ragVectorStorageBuild /\ p = "vectorStorage" ->
            <<Leaf("vector-database-endpoint"), Leaf("vector-index-name"),
              Leaf("vector-metadata-bucket"), Leaf("vector-backup-bucket"),
              Leaf("upsert-request-schema-s3-url"),
              Leaf("vector-metadata-schema-s3-url")>>
      [] b = ragVectorStorageBuild /\ p = "statusApi" ->
            <<Leaf("status-api-endpoint"), Leaf("status-response-schema")>>
      [] b = ragKnowledgeRetrievalBuild /\ p = "vectorSearchProxyApi" ->
            << [pathPart |-> "vector-search-proxy-api",
                children |-> <<"vector-search-endpoint",
                               "health-check-endpoint",
                               "search-request-schema",
                               "search-response-schema",
                               "home-server-config">>] >>
      [] b = ragGenerationBuild /\ p = "generationApi" ->
            << [pathPart |-> "generation-api",
                children |-> <<"generation-request-schema",
                               "generation-response-schema",
                               "conversation-schema", "feedback-schema">>],
               Leaf("web-ui-cloudfront-url"), Leaf("web-ui-s3-bucket") >>
      [] OTHER -> <<>>

\* the producers each environment class creates in its constructor
ProducersOf(b) ==
    CASE b = ragDocumentIngestionBuild ->
            {"documentStorageResources", "authCallbackUrl", "logoutUrl"}
      [] b = ragDocumentProcessingBuild ->
            {"processedContentStorage", "statusApi", "s3PollerRoleArn",
             "documentProcessorRoleArn"}
      [] b = ragEmbeddingBuild -> {"embeddingStorage", "statusApi"}
      [] b = ragVectorStorageBuild -> {"vectorStorage", "statusApi"}
      [] b = ragKnowledgeRetrievalBuild -> {"vectorSearchProxyApi"}
      [] b = ragGenerationBuild -> {"generationApi"}
      [] b = userAuth ->
            {"idProviderName", "idProviderClientId", "homeServerDomainName"}
      [] OTHER -> {}

\* a reference to a producer node: the owning environment, the producer
\* field and the path of pathParts below the producer root
Node(e, p, path) == [owner |-> e, producer |-> p, path |-> path]
UndefNode == Node(NoEnver, "undefined", <<>>)

\* the `children` array the base producer constructor builds from the
\* `children` option: one child per entry, in the order declared
OdmdCrossRefProducer_children(b, p) == ProducerChildren(b, p)

\* producer.children![i]!
Child(e, p, i) ==
    LET cs == OdmdCrossRefProducer_children(e[1], p)
    IN  IF i + 1 <= Len(cs) THEN Node(e, p, <<cs[i + 1].pathPart>>)
        ELSE UndefNode

\* producer.children![i]!.children![j]!
GrandChild(e, p, i, j) ==
    LET cs == OdmdCrossRefProducer_children(e[1], p)
    IN  IF i + 1 <= Len(cs) /\ j + 1 <= Len(cs[i + 1].children)
        THEN Node(e, p, <<cs[i + 1].pathPart, cs[i + 1].children[j + 1]>>)
        ELSE UndefNode

\* the producer object held in field p of environment e
Root(e, p) == IF p \in ProducersOf(e[1]) THEN Node(e, p, <<>>) ELSE UndefNode

(***************************************************************************)
(* Producer getters                                                        *)
(***************************************************************************)
documentBucket(e) == Child(e, "documentStorageResources", 0)
quarantineBucket(e) == Child(e, "documentStorageResources", 1)
documentMetadataSchemaS3Url(e) == Child(e, "documentStorageResources", 2)
processedContentBucket(e) == Child(e, "processedContentStorage", 0)
processingStatusBucket(e) == Child(e, "processedContentStorage", 1)
statusApiEndpoint(e) == Child(e, "statusApi", 0)
statusResponseSchema(e) == Child(e, "statusApi", 1)
embeddingsBucket(e) == Child(e, "embeddingStorage", 0)
\* EmbeddingStorageProducer (document-processing.ts:317-335) declares no
\* such getter: the property read yields undefined
embeddingStatusSchemaS3Url(e) == UndefNode
vectorSearchEndpoint(e) == GrandChild(e, "vectorSearchProxyApi", 0, 0)
healthCheckEndpoint(e) == GrandChild(e, "vectorSearchProxyApi", 0, 1)
searchRequestSchema(e) == GrandChild(e, "vectorSearchProxyApi", 0, 2)
searchResponseSchema(e) == GrandChild(e, "vectorSearchProxyApi", 0, 3)
homeServerConfig(e) == GrandChild(e, "vectorSearchProxyApi", 0, 4)
proxyApi(e) == Child(e, "vectorSearchProxyApi", 0)
vectorDatabaseEndpoint(e) == Child(e, "vectorStorage", 0)

vectorIndexName_WrongIndex(e) == Child(e, "vectorStorage", 2)

vectorIndexName(e) == Child(e, "vectorStorage", 1)
vectorMetadataBucket(e) == Child(e, "vectorStorage", 2)
vectorBackupBucket(e) == Child(e, "vectorStorage", 3)
upsertRequestSchemaS3Url(e) == Child(e, "vectorStorage", 4)
vectorMetadataSchemaS3Url(e) == Child(e, "vectorStorage", 5)
generationApi(e) == Child(e, "generationApi", 0)
generationRequestSchema(e) == GrandChild(e, "generationApi", 0, 0)
generationResponseSchema(e) == GrandChild(e, "generationApi", 0, 1)
conversationSchema(e) == GrandChild(e, "generationApi", 0, 2)
feedbackSchema(e) == GrandChild(e, "generationApi", 0, 3)
webUiCloudFrontUrl(e) == Child(e, "generationApi", 1)
webUiS3Bucket(e) == Child(e, "generationApi", 2)

\* the positional getters each build's producer classes declare
Accessors(b) ==
    CASE b = ragDocumentIngestionBuild ->
            {"documentBucket", "quarantineBucket",
             "documentMetadataSchemaS3Url"}
      [] b = ragDocumentProcessingBuild ->
            {"processedContentBucket", "processingStatusBucket",
             "statusApiEndpoint", "statusResponseSchema"}
      [] b = ragEmbeddingBuild ->
            {"embeddingsBucket", "statusApiEndpoint", "statusResponseSchema"}
      [] b = ragVectorStorageBuild ->
            {"vectorDatabaseEndpoint", "vectorIndexName",
             "vectorMetadataBucket", "vectorBackupBucket",
             "upsertRequestSchemaS3Url", "vectorMetadataSchemaS3Url",
             "statusApiEndpoint", "statusResponseSchema"}
      [] b = ragKnowledgeRetrievalBuild ->
            {"proxyApi", "vectorSearchEndpoint", "healthCheckEndpoint",
             "searchRequestSchema", "searchResponseSchema",
             "homeServerConfig"}
      [] b = ragGenerationBuild ->
            {"generationApi", "generationRequestSchema",
             "generationResponseSchema", "conversationSchema",
             "feedbackSchema", "webUiCloudFrontUrl", "webUiS3Bucket"}
      [] OTHER -> {}

\* producer.<g> on the producer of environment e that declares getter g
Accessor(g, e) ==
    CASE g = "documentBucket" -> documentBucket(e)
      [] g = "quarantineBucket" -> quarantineBucket(e)
      [] g = "documentMetadataSchemaS3Url" -> documentMetadataSchemaS3Url(e)
      [] g = "processedContentBucket" -> processedContentBucket(e)
      [] g = "processingStatusBucket" -> processingStatusBucket(e)
      [] g = "statusApiEndpoint" -> statusApiEndpoint(e)
      [] g = "statusResponseSchema" -> statusResponseSchema(e)
      [] g = "embeddingsBucket" -> embeddingsBucket(e)
      [] g = "vectorDatabaseEndpoint" -> vectorDatabaseEndpoint(e)
      [] g = "vectorIndexName" -> vectorIndexName(e)
      [] g = "vectorMetadataBucket" -> vectorMetadataBucket(e)
      [] g = "vectorBackupBucket" -> vectorBackupBucket(e)
      [] g = "upsertRequestSchemaS3Url" -> upsertRequestSchemaS3Url(e)
      [] g = "vectorMetadataSchemaS3Url" -> vectorMetadataSchemaS3Url(e)
      [] g = "proxyApi" -> proxyApi(e)
      [] g = "vectorSearchEndpoint" -> vectorSearchEndpoint(e)
      [] g = "healthCheckEndpoint" -> healthCheckEndpoint(e)
      [] g = "searchRequestSchema" -> searchRequestSchema(e)
      [] g = "searchResponseSchema" -> searchResponseSchema(e)
      [] g = "homeServerConfig" -> homeServerConfig(e)
      [] g = "generationApi" -> generationApi(e)
      [] g = "generationRequestSchema" -> generationRequestSchema(e)
      [] g = "generationResponseSchema" -> generationResponseSchema(e)
      [] g = "conversationSchema" -> conversationSchema(e)
      [] g = "feedbackSchema" -> feedbackSchema(e)
      [] g = "webUiCloudFrontUrl" -> webUiCloudFrontUrl(e)
      [] g = "webUiS3Bucket" -> webUiS3Bucket(e)
      [] OTHER -> UndefNode

(***************************************************************************)
(* Consumers                                                               *)
(***************************************************************************)
\* the consumer fields each environment class declares
ConsumerFields(b) ==
    CASE b = ragDocumentIngestionBuild ->
            {"authProviderClientId", "authProviderName",
             "processingStatusApiEndpoint", "embeddingStatusApiEndpoint",
             "vectorStorageStatusApiEndpoint"}
      [] b = ragDocumentProcessingBuild -> {"documentBucket", "quarantineBucket"}
      [] b = ragEmbeddingBuild ->
            {"processedContentSubscription", "authProviderClientId",
             "authProviderName"}
      [] b = ragVectorStorageBuild ->
            {"embeddingSubscription", "embeddingStatusSchemaS3Url",
             "authProviderClientId", "authProviderName", "homeServerDomain"}
      [] b = ragKnowledgeRetrievalBuild ->
            {"authProviderClientId", "authProviderName", "homeServerDomain"}
      [] b = ragGenerationBuild ->
            {"vectorSearchProxySubscription", "healthCheckSubscription",
             "searchSchemaSubscription", "authProviderClientId",
             "authProviderName"}
      [] b = userAuth -> {"callbackUrls", "logoutUrls"}
      [] OTHER -> {}

\* callbackUrls and logoutUrls are arrays the wiring pushes to; every other
\* consumer field is a plain field the wiring assigns
IsListField(f) == f \in {"callbackUrls", "logoutUrls"}

\* the environments whose consumers are created by wireConsuming()
HasWireConsuming(b) ==
    b \in {ragDocumentIngestionBuild, ragDocumentProcessingBuild,
           ragVectorStorageBuild, ragKnowledgeRetrievalBuild,
           ragGenerationBuild, userAuth}

NoOpts == [defaultIfAbsent |-> "undefined", trigger |-> "undefined"]
Opts(d, t) == [defaultIfAbsent |-> d, trigger |-> t]

\* new OdmdCrossRefConsumer(owner, id, producer, options): stores its
\* arguments
OdmdCrossRefConsumer(owner, id, producer, opts) ==
    [owner |-> owner, id |-> id, producer |-> producer,
     defaultIfAbsent |-> opts.defaultIfAbsent, trigger |-> opts.trigger]

\* producer.node.id
NodeId(n) == n.producer

\* the consumer fields of a freshly constructed registry: plain fields are
\* undefined and the arrays are empty, both the empty sequence here
NoConsumers == [e \in Envers |-> [f \in ConsumerFields(e[1]) |-> <<>>]]

\* the state a wireConsuming() call works on: the consumer fields, the
\* environments whose producers or consumer fields it has read, whether it
\* has thrown, and the environments whose own call has returned
WireState(c) == [cons |-> c, reads |-> {}, threw |-> FALSE, done |-> <<>>]

Throw(s) == [s EXCEPT !.threw = TRUE]

\* this.f = consumer
Assign(s, e, f, c) ==
    IF s.threw THEN s
    ELSE [s EXCEPT !.cons[e][f] = <<c>>,
                   !.reads = @ \cup {[by |-> e, of |-> c.producer.owner,
                                      kind |-> "producer"]}]

\* the find predicates of the ingestion environment read consumer fields
\* of the environments in `es`
ReadConsumers(s, e, es) ==
    [s EXCEPT !.reads = @ \cup {[by |-> e, of |-> x, kind |-> "consumer"] :
                                    x \in es}]

\* this.f.push(consumer)
Push(s, e, f, c) ==
    IF s.threw THEN s
    ELSE [s EXCEPT !.cons[e][f] = Append(@, c),
                   !.reads = @ \cup {[by |-> e, of |-> c.producer.owner,
                                      kind |-> "producer"]}]

RECURSIVE FirstFrom(_, _, _)
\* Array.prototype.find over `list`, res[k] being the outcome of the
\* predicate on list[k]: the first "true" wins, a "throw" before it aborts
FirstFrom(list, res, k) ==
    IF k > Len(list) THEN [found |-> NoEnver, threw |-> FALSE]
    ELSE IF res[k] = "throw" THEN [found |-> NoEnver, threw |-> TRUE]
    ELSE IF res[k] = "true" THEN [found |-> list[k], threw |-> FALSE]
    ELSE FirstFrom(list, res, k + 1)

Find(list, res) == FirstFrom(list, res, 1)

\* the elements of `list` the find predicate was evaluated on
Visited(list, res) ==
    {list[k] : k \in {j \in DOMAIN list :
                        \A m \in 1..(j - 1) : res[m] = "false"}}

\* the build fields of the registry read through `contracts` are undefined
\* until the constructor has assigned them
Assigned(fs, bs) == bs \subseteq fs

(***************************************************************************)
(* wireConsuming() of the environments                                     *)
(*                                                                         *)
(* Each operator maps the wire state before the call to the wire state     *)
(* after it; `fs` is the set of registry build fields assigned so far.     *)
(* A TypeError (a property read on undefined) stops the call where it      *)
(* happens and keeps the assignments made before it.                       *)
(***************************************************************************)
\* the consumer held by plain field f of environment e, or <<>>
Field(s, e, f) ==
    IF e \in Envers /\ f \in ConsumerFields(e[1]) THEN s.cons[e][f] ELSE <<>>

\* e.processedContentSubscription.producer.owner.ingestionEnver == self
\* for an embedding environment e
EmbeddingFeeds(s, e, self) ==
    LET sub == Field(s, e, "processedContentSubscription")
    IN  IF sub = <<>> THEN "throw"
        ELSE IF sub[1].producer = UndefNode THEN "throw"
        ELSE IF ingestionEnver(sub[1].producer.owner) = self THEN "true"
        ELSE "false"

\* VectorStorageFeeds reading an unset embeddingSubscription as no match
VectorStorageFeeds_Optional(s, e, self) ==
    LET sub == Field(s, e, "embeddingSubscription")
    IN  IF sub = <<>> THEN "false"
        ELSE IF sub[1].producer = UndefNode THEN "false"
        ELSE EmbeddingFeeds(s, sub[1].producer.owner, self)

\* e.embeddingSubscription.producer.owner.processedContentSubscription
\*  .producer.owner.ingestionEnver == self for a vector storage environment e
VectorStorageFeeds(s, e, self) ==
    LET sub == Field(s, e, "embeddingSubscription")
    IN  IF sub = <<>> THEN "throw"
        ELSE IF sub[1].producer = UndefNode THEN "throw"
        ELSE EmbeddingFeeds(s, sub[1].producer.owner, self)

\* RagDocumentProcessingEnver.wireConsuming() declaring no defaultIfAbsent
RagDocumentProcessingEnver_wireConsuming_NoDefault(s, e, fs) ==
    IF ~Assigned(fs, {ragDocumentIngestionBuild}) THEN Throw(s)
    ELSE
    LET s1 == Assign(s, e, "documentBucket",
                OdmdCrossRefConsumer(e, "doc-bucket",
                    documentBucket(ingestionEnver(e)), NoOpts))
    IN  Assign(s1, e, "quarantineBucket",
                OdmdCrossRefConsumer(e, "quarantine-bucket",
                    quarantineBucket(ingestionEnver(e)), NoOpts))

RagDocumentProcessingEnver_wireConsuming(s, e, fs) ==
    IF ~Assigned(fs, {ragDocumentIngestionBuild}) THEN Throw(s)
    ELSE
    LET s1 == Assign(s, e, "documentBucket",
                OdmdCrossRefConsumer(e, "doc-bucket",
                    documentBucket(ingestionEnver(e)),
                    Opts("default-bucket-name", "no")))
    IN  Assign(s1, e, "quarantineBucket",
                OdmdCrossRefConsumer(e, "quarantine-bucket",
                    quarantineBucket(ingestionEnver(e)),
                    Opts("default-quarantine-bucket-name", "no")))

RagVectorStorageEnver_wireConsuming(s, e, fs) ==
    IF ~Assigned(fs, {ragEmbeddingBuild, userAuth}) THEN Throw(s)
    ELSE
    LET embeddingEnver == <<ragEmbeddingBuild, "dev">>
        s1 == Assign(s, e, "embeddingSubscription",
                OdmdCrossRefConsumer(e, "embedding-subscription",
                    embeddingsBucket(embeddingEnver), NoOpts))
        s2 == Assign(s1, e, "embeddingStatusSchemaS3Url",
                OdmdCrossRefConsumer(e, "embeddingStatusSchemaS3Url",
                    embeddingStatusSchemaS3Url(embeddingEnver), NoOpts))
        s3 == Assign(s2, e, "authProviderClientId",
                OdmdCrossRefConsumer(e,
                    NodeId(Root(userAuthEnver, "idProviderClientId")),
                    Root(userAuthEnver, "idProviderClientId"), NoOpts))
        s4 == Assign(s3, e, "authProviderName",
                OdmdCrossRefConsumer(e,
                    NodeId(Root(userAuthEnver, "idProviderName")),
                    Root(userAuthEnver, "idProviderName"), NoOpts))
    IN  Assign(s4, e, "homeServerDomain",
                OdmdCrossRefConsumer(e,
                    NodeId(Root(userAuthEnver, "homeServerDomainName")),
                    Root(userAuthEnver, "homeServerDomainName"),
                    Opts("https://localhost:3000", "no")))

RagKnowledgeRetrievalEnver_wireConsuming(s, e, fs) ==
    IF ~Assigned(fs, {userAuth}) THEN Throw(s)
    ELSE
    LET s1 == Assign(s, e, "authProviderClientId",
                OdmdCrossRefConsumer(e,
                    NodeId(Root(userAuthEnver, "idProviderClientId")),
                    Root(userAuthEnver, "idProviderClientId"),
                    Opts("default-client-id", "no")))
        s2 == Assign(s1, e, "authProviderName",
                OdmdCrossRefConsumer(e,
                    NodeId(Root(userAuthEnver, "idProviderName")),
                    Root(userAuthEnver, "idProviderName"),
                    Opts("default-provider-name", "no")))
    IN  Assign(s2, e, "homeServerDomain",
                OdmdCrossRefConsumer(e,
                    NodeId(Root(userAuthEnver, "homeServerDomainName")),
                    Root(userAuthEnver, "homeServerDomainName"),
                    Opts("https://localhost:3000", "no")))

RagGenerationEnver_wireConsuming(s, e, fs) ==
    IF ~Assigned(fs, {ragKnowledgeRetrievalBuild, userAuth}) THEN Throw(s)
    ELSE
    LET knowledgeRetrievalEnver == <<ragKnowledgeRetrievalBuild, "dev">>
        s1 == Assign(s, e, "vectorSearchProxySubscription",
                OdmdCrossRefConsumer(e, "vector-search-proxy-subscription",
                    vectorSearchEndpoint(knowledgeRetrievalEnver),
                    Opts("default-vector-search-api", "no")))
        s2 == Assign(s1, e, "healthCheckSubscription",
                OdmdCrossRefConsumer(e, "health-check-subscription",
                    healthCheckEndpoint(knowledgeRetrievalEnver),
                    Opts("default-health-check-api", "no")))
        s3 == Assign(s2, e, "searchSchemaSubscription",
                OdmdCrossRefConsumer(e, "search-schema-subscription",
                    searchRequestSchema(knowledgeRetrievalEnver),
                    Opts("default-search-schema", "no")))
        s4 == Assign(s3, e, "authProviderClientId",
                OdmdCrossRefConsumer(e,
                    NodeId(Root(userAuthEnver, "idProviderClientId")),
                    Root(userAuthEnver, "idProviderClientId"),
                    Opts("default-client-id", "no")))
    IN  Assign(s4, e, "authProviderName",
                OdmdCrossRefConsumer(e,
                    NodeId(Root(userAuthEnver, "idProviderName")),
                    Root(userAuthEnver, "idProviderName"),
                    Opts("default-provider-name", "no")))

RECURSIVE PushCallbacks(_, _, _)
\* the forEach over the ingestion environments, from index k (1-based
\* here, `index` in the consumer ids is 0-based)
PushCallbacks(s, e, k) ==
    LET list == EnversOf(ragDocumentIngestionBuild)
    IN  IF k > Len(list) THEN s
        ELSE PushCallbacks(
                Push(Push(s, e, "callbackUrls",
                        OdmdCrossRefConsumer(e, "doc-ing-callback-" \o ToString(k - 1),
                            Root(list[k], "authCallbackUrl"),
                            Opts("http://localhost:1234/callback",
                                 "directly"))),
                     e, "logoutUrls",
                     OdmdCrossRefConsumer(e, "doc-ing-logout-" \o ToString(k - 1),
                        Root(list[k], "logoutUrl"),
                        Opts("http://localhost:1234/logout", "directly"))),
                e, k + 1)

\* RagUserAuthEnver.wireConsuming() pushing the consumers of the first
\* ingestion environment only
RagUserAuthEnver_wireConsuming_FirstOnly(s, e, fs) ==
    Push(Push(s, e, "callbackUrls",
            OdmdCrossRefConsumer(e, "doc-ing-callback-0",
                Root(EnversOf(ragDocumentIngestionBuild)[1],
                     "authCallbackUrl"),
                Opts("http://localhost:1234/callback", "directly"))),
         e, "logoutUrls",
         OdmdCrossRefConsumer(e, "doc-ing-logout-0",
            Root(EnversOf(ragDocumentIngestionBuild)[1], "logoutUrl"),
            Opts("http://localhost:1234/logout", "directly")))

\* RagUserAuthEnver.wireConsuming() consuming a producer of its own
\* environment
RagUserAuthEnver_wireConsuming_OwnProducer(s, e, fs) ==
    Push(s, e, "callbackUrls",
         OdmdCrossRefConsumer(e, "doc-ing-callback-0",
            Root(e, "homeServerDomainName"), NoOpts))

RagUserAuthEnver_wireConsuming(s, e, fs) ==
    IF ~Assigned(fs, {ragDocumentIngestionBuild}) THEN Throw(s)
    ELSE PushCallbacks(s, e, 1)

\* const processingEnver = ...envers.find(e => e.ingestionEnver === this);
\* if (processingEnver) { this.processingStatusApiEndpoint = ... }
WireProcessingStatus(s, e, fs) ==
    LET procs == EnversOf(ragDocumentProcessingBuild)
        processingEnver ==
            IF ~Assigned(fs, {ragDocumentProcessingBuild})
            THEN [found |-> NoEnver, threw |-> TRUE]
            ELSE Find(procs,
                    [k \in DOMAIN procs |->
                        IF ingestionEnver(procs[k]) = e THEN "true"
                        ELSE "false"])
    IN  IF s.threw THEN s
        ELSE IF processingEnver.threw THEN Throw(s)
        ELSE IF processingEnver.found # NoEnver
        THEN Assign(s, e, "processingStatusApiEndpoint",
                OdmdCrossRefConsumer(e, "processing-status-api",
                    statusApiEndpoint(processingEnver.found), NoOpts))
        ELSE s

\* const embeddingEnver = ...envers.find(e =>
\*     e.processedContentSubscription.producer.owner.ingestionEnver === this);
\* if (embeddingEnver) { this.embeddingStatusApiEndpoint = ... }
WireEmbeddingStatus(s, e, fs) ==
    LET embs == EnversOf(ragEmbeddingBuild)
        embRes == [k \in DOMAIN embs |-> EmbeddingFeeds(s, embs[k], e)]
    IN  IF s.threw THEN s
        ELSE IF ~Assigned(fs, {ragEmbeddingBuild}) THEN Throw(s)
        ELSE IF Find(embs, embRes).threw
        THEN Throw(ReadConsumers(s, e, Visited(embs, embRes)))
        ELSE IF Find(embs, embRes).found # NoEnver
        THEN Assign(ReadConsumers(s, e, Visited(embs, embRes)), e,
                "embeddingStatusApiEndpoint",
                OdmdCrossRefConsumer(e, "embedding-status-api",
                    statusApiEndpoint(Find(embs, embRes).found), NoOpts))
        ELSE ReadConsumers(s, e, Visited(embs, embRes))

\* const vectorStorageEnver = ...envers.find(e =>
\*     e.embeddingSubscription.producer.owner.processedContentSubscription
\*      .producer.owner.ingestionEnver === this);
\* if (vectorStorageEnver) { this.vectorStorageStatusApiEndpoint = ... }
WireVectorStorageStatus(s, e, fs) ==
    LET stores == EnversOf(ragVectorStorageBuild)
        storeRes == [k \in DOMAIN stores |->
                        VectorStorageFeeds(s, stores[k], e)]
    IN  IF s.threw THEN s
        ELSE IF ~Assigned(fs, {ragVectorStorageBuild}) THEN Throw(s)
        ELSE IF Find(stores, storeRes).threw
        THEN Throw(ReadConsumers(s, e, Visited(stores, storeRes)))
        ELSE IF Find(stores, storeRes).found # NoEnver
        THEN Assign(ReadConsumers(s, e, Visited(stores, storeRes)), e,
                "vectorStorageStatusApiEndpoint",
                OdmdCrossRefConsumer(e, "vector-storage-status-api",
                    statusApiEndpoint(Find(stores, storeRes).found), NoOpts))
        ELSE ReadConsumers(s, e, Visited(stores, storeRes))

RagDocumentIngestionEnver_wireConsuming(s, e, fs) ==
    IF ~Assigned(fs, {userAuth}) THEN Throw(s)
    ELSE
    LET s1 == Assign(s, e, "authProviderClientId",
                OdmdCrossRefConsumer(e,
                    NodeId(Root(userAuthEnver, "idProviderClientId")),
                    Root(userAuthEnver, "idProviderClientId"), NoOpts))
        s2 == Assign(s1, e, "authProviderName",
                OdmdCrossRefConsumer(e,
                    NodeId(Root(userAuthEnver, "idProviderName")),
                    Root(userAuthEnver, "idProviderName"), NoOpts))
    IN  WireVectorStorageStatus(
            WireEmbeddingStatus(WireProcessingStatus(s2, e, fs), e, fs),
            e, fs)

\* e.wireConsuming() dispatched on the class of e
Enver_wireConsuming(s, e, fs) ==
    CASE e[1] = ragDocumentIngestionBuild ->
            RagDocumentIngestionEnver_wireConsuming(s, e, fs)
      [] e[1] = ragDocumentProcessingBuild ->
            RagDocumentProcessingEnver_wireConsuming(s, e, fs)
      [] e[1] = ragVectorStorageBuild ->
            RagVectorStorageEnver_wireConsuming(s, e, fs)
      [] e[1] = ragKnowledgeRetrievalBuild ->
            RagKnowledgeRetrievalEnver_wireConsuming(s, e, fs)
      [] e[1] = ragGenerationBuild ->
            RagGenerationEnver_wireConsuming(s, e, fs)
      [] e[1] = userAuth -> RagUserAuthEnver_wireConsuming(s, e, fs)
      [] OTHER -> Throw(s)

\* the call on environment e has ended in wire state t: e joins `done`
\* unless the call threw
Returned(t, e) ==
    IF t.threw THEN t ELSE [t EXCEPT !.done = Append(@, e)]

RECURSIVE ForEachWire(_, _, _, _)
\* this.envers.forEach(e => e.wireConsuming()): a throw ends the loop.
\* The wire state gains `done`, the environments whose call returned.
ForEachWire(s, list, k, fs) ==
    IF k > Len(list) \/ s.threw THEN s
    ELSE ForEachWire(Returned(Enver_wireConsuming(s, list[k], fs), list[k]),
                     list, k + 1, fs)

\* build.wireConsuming() for a service build
Build_wireConsuming(c, b, fs) ==
    ForEachWire(WireState(c), EnversOf(b), 1, fs)

\* WiringOrder with document ingestion wired first instead of last
WiringOrder_IngestionFirst ==
    <<ragDocumentIngestionBuild, ragDocumentProcessingBuild,
      ragVectorStorageBuild, ragKnowledgeRetrievalBuild, userAuth>>

\* WiringOrder with document ingestion wired before user-auth
WiringOrder_IngestionBeforeUserAuth ==
    <<ragDocumentProcessingBuild, ragVectorStorageBuild,
      ragKnowledgeRetrievalBuild, ragDocumentIngestionBuild, userAuth>>

\* the five calls of the registry's wiring pass: four build-level calls and
\* the call on the single user-auth environment
WiringOrder ==
    <<ragDocumentProcessingBuild, ragVectorStorageBuild,
      ragKnowledgeRetrievalBuild, userAuth, ragDocumentIngestionBuild>>

(***************************************************************************)
(* Construction of the builds                                              *)
(***************************************************************************)
\* RagEmbeddingEnver's constructor taking an undefined processing build
\* for an environment without producers instead of failing on it
RagEmbeddingEnver_constructor_NoDeref(s, e, fs) ==
    LET documentProcessingEnver == <<ragDocumentProcessingBuild, "dev">>
        s1 == Assign(s, e, "processedContentSubscription",
                OdmdCrossRefConsumer(e, "processedContentSubscription",
                    IF Assigned(fs, {ragDocumentProcessingBuild})
                    THEN processedContentBucket(documentProcessingEnver)
                    ELSE UndefNode, NoOpts))
        s2 == Assign(s1, e, "authProviderClientId",
                OdmdCrossRefConsumer(e,
                    NodeId(Root(userAuthEnver, "idProviderClientId")),
                    Root(userAuthEnver, "idProviderClientId"), NoOpts))
    IN  Assign(s2, e, "authProviderName",
                OdmdCrossRefConsumer(e,
                    NodeId(Root(userAuthEnver, "idProviderName")),
                    Root(userAuthEnver, "idProviderName"), NoOpts))

\* RagEmbeddingEnver's constructor creates its consumers itself
RagEmbeddingEnver_constructor(s, e, fs) ==
    IF ~Assigned(fs, {ragDocumentProcessingBuild, userAuth}) THEN Throw(s)
    ELSE
    LET documentProcessingEnver == <<ragDocumentProcessingBuild, "dev">>
        s1 == Assign(s, e, "processedContentSubscription",
                OdmdCrossRefConsumer(e, "processedContentSubscription",
                    processedContentBucket(documentProcessingEnver), NoOpts))
        s2 == Assign(s1, e, "authProviderClientId",
                OdmdCrossRefConsumer(e,
                    NodeId(Root(userAuthEnver, "idProviderClientId")),
                    Root(userAuthEnver, "idProviderClientId"), NoOpts))
    IN  Assign(s2, e, "authProviderName",
                OdmdCrossRefConsumer(e,
                    NodeId(Root(userAuthEnver, "idProviderName")),
                    Root(userAuthEnver, "idProviderName"), NoOpts))

\* build.initializeEnvers(): creates the dev and prod environments; the
\* processing build reads the ingestion build's environments, the embedding
\* environments read the processing build and user-auth
initializeEnvers(c, b, fs) ==
    CASE b = ragDocumentProcessingBuild ->
            IF Assigned(fs, {ragDocumentIngestionBuild}) THEN WireState(c)
            ELSE Throw(WireState(c))
      [] b = ragEmbeddingBuild ->
            LET list == EnversOf(b)
                s1 == RagEmbeddingEnver_constructor(WireState(c), list[1], fs)
            IN  RagEmbeddingEnver_constructor(s1, list[2], fs)
      [] OTHER -> WireState(c)

\* the elements of odmdBuilds left after the duplicate check has spliced
\* out the first occurrence of every distinct build
SpliceFirsts(bs) ==
    LET keep == {k \in DOMAIN bs : \E j \in 1..(k - 1) : bs[j] = bs[k]}
        F[k \in 0..Len(bs)] ==
            IF k = 0 THEN <<>>
            ELSE IF k \in keep THEN Append(F[k - 1], bs[k]) ELSE F[k - 1]
    IN  F[Len(bs)]

\* k copies of b
Copies(b, k) == [j \in 1..k |-> b]

(***************************************************************************)
(* State                                                                   *)
(***************************************************************************)
VARIABLES
    env,          \* process.env
    inst,         \* RagContracts._inst: 0 is undefined, else an instance
    nInst,        \* number of constructor calls started
    cur,          \* the instance whose constructor is running, 0 if none
    pc,           \* position of the running constructor
    err,          \* the error the last finished constructor call threw
    status,       \* per instance: how far its construction got
    fields,       \* per instance: the build fields assigned
    odmdBuilds,   \* per instance: the odmdBuilds array
    cons,         \* per instance: the consumer fields of its environments
    wireCount,    \* per instance and environment: wireConsuming() returns
    plan,         \* the wiring calls the running constructor still makes
    buildRegion,  \* the constructor's local buildRegion
    buildAccount, \* the constructor's local buildAccount
    readLog,      \* the cross-build reads made by wireConsuming() calls
    lastRead,     \* the last consumer read by a caller
    lastWire,     \* the last wireConsuming() call made by a caller
    extraWire,    \* number of wireConsuming() calls made by callers
    lastOp,       \* the last build constructed or wired in a chosen order
    deployed,     \* the environments that have been deployed
    policy,       \* the statement added to a producer's resource policy
    principal,    \* the role that last requested the resource
    allowed,      \* whether the statement allowed that request
    role,         \* the role a service stack last created
    access,       \* the last read of a producer child
    accounts,     \* the account numbers by account name
    allAccountsResult  \* the outcome of the last read of allAccounts

vars == <<env, inst, nInst, cur, pc, err, status, fields, odmdBuilds, cons,
          wireCount, plan, buildRegion, buildAccount, readLog, lastRead,
          lastWire, extraWire, lastOp, deployed, policy, principal, allowed,
          role, access, accounts, allAccountsResult>>

ctorVars == <<nInst, cur, pc, err, status, plan, buildRegion, buildAccount>>
callerVars == <<lastRead, lastWire, extraWire>>
accountVars == <<accounts, allAccountsResult>>
trustVars == <<policy, principal, allowed, role, access, accountVars>>
platformVars == <<lastOp, deployed, trustVars>>

Instances == 1..MaxInstances

NoError == "none"
SingletonError == "RagContracts is a singleton - not allowed to create multiple instances"
DuplicateError == "Duplicated builds detected!"
CliVersionError == "CDK_CLI_VERSION environment variable is required!"
CodeBuildArnError == "CODEBUILD_BUILD_ARN undefined, unable to initialize without account information."
RegionAccountError == "buildRegion>; buildAccount>"
TypeError == "TypeError"

NoRead == [state |-> "none", value |-> "none"]
NoWire == [build |-> "none", wiredBefore |-> FALSE, threw |-> FALSE,
           grew |-> FALSE]

NoOp == [op |-> "none", build |-> "none", threw |-> FALSE]
NoPolicy == [prefix |-> "none", account |-> "none", region |-> "none"]
NoPrincipal == [prefix |-> "none", component |-> "none", account |-> "none",
                region |-> "none"]
\* the keys of AccountsRag in the order the accounts getter lists them
AccountNames == <<"central", "workspace0", "workspace1", "workspace2">>
AccountNumbers ==
    {"877679826644", "447839931803", "366920167720", "217471730138"}

\* the object the accounts getter returns
AccountsRag ==
    [n \in Range(AccountNames) |->
        CASE n = "central" -> "877679826644"
          [] n = "workspace0" -> "447839931803"
          [] n = "workspace1" -> "366920167720"
          [] n = "workspace2" -> "217471730138"]

NoResult == [threw |-> FALSE, value |-> <<"none">>]

NoAccess == [via |-> "none", owner |-> <<"undefined", "undefined">>,
             name |-> "none", producer |-> "none", i |-> 0, j |-> 0,
             node |-> [owner |-> <<"undefined", "undefined">>,
                       producer |-> "undefined", path |-> <<>>]]
NoRole == [owner |-> <<"undefined", "undefined">>, prefix |-> "none",
           component |-> "none", rejected |-> FALSE]

InitRegistry ==
    /\ env \in Envs
    /\ inst = 0
    /\ nInst = 0
    /\ cur = 0
    /\ pc = "idle"
    /\ err = NoError
    /\ status = [i \in Instances |-> "unconstructed"]
    /\ fields = [i \in Instances |-> {}]
    /\ odmdBuilds = [i \in Instances |-> <<>>]
    /\ cons = [i \in Instances |-> NoConsumers]
    /\ wireCount = [i \in Instances |-> [e \in Envers |-> 0]]
    /\ plan = <<>>
    /\ buildRegion = Unset
    /\ buildAccount = Unset
    /\ readLog = {}
    /\ lastRead = NoRead
    /\ lastWire = NoWire
    /\ extraWire = 0
    /\ lastOp = NoOp
    /\ deployed = {}
    /\ policy = NoPolicy
    /\ principal = NoPrincipal
    /\ allowed = FALSE
    /\ role = NoRole
    /\ access = NoAccess

Init ==
    /\ InitRegistry
    /\ accounts = AccountsRag
    /\ allAccountsResult = NoResult

\* the constructor call of instance `cur` ends by throwing `e`
Raise(e) ==
    /\ pc' = "idle"
    /\ cur' = 0
    /\ err' = e
    /\ status' = [status EXCEPT ![cur] = "failed"]
    /\ plan' = <<>>

\* all environments of build b have had a wireConsuming() call return
BuildWired(wc, b) == \A e \in Range(EnversOf(b)) : wc[e] > 0

\* the log entries of one wireConsuming() call of build b on instance i:
\* for each read of another build, whether that build was constructed and
\* whether its own wireConsuming() had returned, at the time of the call
LogReads(i, b, reads) ==
    {[by |-> b, of |-> r.of[1], kind |-> r.kind,
      ofBuilt |-> r.of[1] \in fields[i],
      ofWired |-> BuildWired(wireCount[i], r.of[1])] :
        r \in {x \in reads : x.of # NoEnver /\ x.of[1] # b}}

\* the lifecycle state of environment e of instance i
EnverState(i, e) ==
    IF e[1] \notin fields[i] THEN "Unconstructed"
    ELSE IF HasWireConsuming(e[1]) /\ wireCount[i][e] = 0
    THEN "ProducersInitialized"
    ELSE "Wired"

(***************************************************************************)
(* The RagContracts constructor, statement by statement                    *)
(***************************************************************************)
\* `new RagContracts(app)` begins: super(app, 'RagContracts') runs the base
\* constructor, which creates the contracts-lib, user-auth and networking
\* builds through the initialize hooks
CtorSuper ==
    /\ pc = "idle"
    /\ nInst < MaxInstances
    /\ nInst' = nInst + 1
    /\ cur' = nInst + 1
    /\ pc' = "singleton"
    /\ err' = NoError
    /\ status' = [status EXCEPT ![nInst + 1] = "constructing"]
    /\ fields' = [fields EXCEPT ![nInst + 1] = Range(BaseBuildOrder)]
    /\ odmdBuilds' = [odmdBuilds EXCEPT ![nInst + 1] = BaseBuildOrder]
    /\ plan' = WiringOrder
    /\ buildRegion' = Unset
    /\ buildAccount' = Unset
    /\ UNCHANGED <<platformVars, env, inst, cons, wireCount, readLog, callerVars>>

\* CtorSingleton without the guard: every constructor call overwrites
\* RagContracts._inst
CtorSingleton_NoGuard ==
    /\ pc = "singleton"
    /\ inst' = cur
    /\ pc' = "builds"
    /\ UNCHANGED <<cur, err, status, plan>>
    /\ UNCHANGED <<platformVars, env, nInst, fields, odmdBuilds, cons, wireCount,
                   buildRegion, buildAccount, readLog, callerVars>>

\* CtorSingleton letting a new instance replace one whose constructor
\* raised
CtorSingleton_IgnoresFailed ==
    /\ pc = "singleton"
    /\ IF inst # 0 /\ status[inst] # "failed"
       THEN /\ Raise(SingletonError)
            /\ UNCHANGED inst
       ELSE /\ inst' = cur
            /\ pc' = "builds"
            /\ UNCHANGED <<cur, err, status, plan>>
    /\ UNCHANGED <<platformVars, env, nInst, fields, odmdBuilds, cons, wireCount,
                   buildRegion, buildAccount, readLog, callerVars>>

\* if (RagContracts._inst) throw ...; RagContracts._inst = this
CtorSingleton ==
    /\ pc = "singleton"
    /\ IF inst # 0
       THEN /\ Raise(SingletonError)
            /\ UNCHANGED inst
       ELSE /\ inst' = cur
            /\ pc' = "builds"
            /\ UNCHANGED <<cur, err, status, plan>>
    /\ UNCHANGED <<platformVars, env, nInst, fields, odmdBuilds, cons, wireCount,
                   buildRegion, buildAccount, readLog, callerVars>>

\* the next build of ServiceBuildOrder the constructor has not created yet
NextBuild(i) ==
    LET todo == {k \in DOMAIN ServiceBuildOrder :
                    ServiceBuildOrder[k] \notin fields[i]}
    IN  ServiceBuildOrder[CHOOSE k \in todo : \A j \in todo : k <= j]

\* this.<build> = new <Build>(this): the base constructor registers the
\* build in odmdBuilds (k times) and runs initializeEnvers; the field is
\* assigned when the constructor returns
CtorBuild ==
    /\ pc = "builds"
    /\ \E k \in 1..MaxRegistrations :
        \E b \in {NextBuild(cur)} :
        \E r \in {initializeEnvers(cons[cur], b, fields[cur])} :
            /\ odmdBuilds' = [odmdBuilds EXCEPT ![cur] = @ \o Copies(b, k)]
            /\ cons' = [cons EXCEPT ![cur] = r.cons]
            /\ IF r.threw
               THEN /\ Raise(TypeError)
                    /\ UNCHANGED fields
               ELSE /\ fields' = [fields EXCEPT ![cur] = @ \cup {b}]
                    /\ pc' = IF ServiceBuilds \subseteq fields[cur] \cup {b}
                             THEN "dupcheck" ELSE "builds"
                    /\ UNCHANGED <<cur, err, status, plan>>
    /\ UNCHANGED <<platformVars, env, inst, nInst, wireCount, buildRegion, buildAccount,
                   readLog, callerVars>>

\* CtorDupCheck that splices the duplicates but forgets the throw
CtorDupCheck_NoThrow ==
    /\ pc = "dupcheck"
    /\ odmdBuilds' =
        [odmdBuilds EXCEPT ![cur] =
            IF Cardinality(Range(@)) # Len(@) THEN SpliceFirsts(@) ELSE @]
    /\ pc' = "envcheck"
    /\ UNCHANGED <<cur, err, status, plan>>
    /\ UNCHANGED <<platformVars, env, inst, nInst, fields, cons, wireCount, buildRegion,
                   buildAccount, readLog, callerVars>>

\* CtorDupCheck with the comparison the wrong way round
\* (tmpSet.size > this.odmdBuilds.length, which never holds)
CtorDupCheck_WrongCompare ==
    /\ pc = "dupcheck"
    /\ IF Cardinality(Range(odmdBuilds[cur])) > Len(odmdBuilds[cur])
       THEN /\ odmdBuilds' = [odmdBuilds EXCEPT ![cur] = SpliceFirsts(@)]
            /\ Raise(DuplicateError)
       ELSE /\ pc' = "envcheck"
            /\ UNCHANGED <<odmdBuilds, cur, err, status, plan>>
    /\ UNCHANGED <<platformVars, env, inst, nInst, fields, cons, wireCount, buildRegion,
                   buildAccount, readLog, callerVars>>

\* let tmpSet = new Set(this.odmdBuilds); if (tmpSet.size != length) ...
CtorDupCheck ==
    /\ pc = "dupcheck"
    /\ IF Cardinality(Range(odmdBuilds[cur])) # Len(odmdBuilds[cur])
       THEN /\ odmdBuilds' = [odmdBuilds EXCEPT ![cur] = SpliceFirsts(@)]
            /\ Raise(DuplicateError)
       ELSE /\ pc' = "envcheck"
            /\ UNCHANGED <<odmdBuilds, cur, err, status, plan>>
    /\ UNCHANGED <<platformVars, env, inst, nInst, fields, cons, wireCount, buildRegion,
                   buildAccount, readLog, callerVars>>

\* DeriveAccount reading the fourth part of the ARN (the region) instead
\* of the fifth
DeriveAccount_WrongIndex(e) ==
    IF Truthy(e["CDK_DEFAULT_ACCOUNT"]) THEN e["CDK_DEFAULT_ACCOUNT"]
    ELSE IF ~Truthy(e["CODEBUILD_BUILD_ARN"]) THEN Unset
    ELSE At(Split(e["CODEBUILD_BUILD_ARN"].val, ":"), 3)

\* buildAccount as the constructor derives it: CDK_DEFAULT_ACCOUNT when
\* truthy, else the fifth colon-separated part of CODEBUILD_BUILD_ARN
DeriveAccount(e) ==
    IF Truthy(e["CDK_DEFAULT_ACCOUNT"]) THEN e["CDK_DEFAULT_ACCOUNT"]
    ELSE IF ~Truthy(e["CODEBUILD_BUILD_ARN"]) THEN Unset
    ELSE At(Split(e["CODEBUILD_BUILD_ARN"].val, ":"), 4)

\* the error the environment validation throws, NoError if it passes
EnvError(e) ==
    IF ~Truthy(e["CDK_CLI_VERSION"]) THEN CliVersionError
    ELSE IF ~Truthy(e["CDK_DEFAULT_ACCOUNT"])
            /\ ~Truthy(e["CODEBUILD_BUILD_ARN"]) THEN CodeBuildArnError
    ELSE IF ~Truthy(e["CDK_DEFAULT_REGION"]) \/ ~Truthy(DeriveAccount(e))
    THEN RegionAccountError
    ELSE NoError

\* the validation of process.env
CtorEnvCheck ==
    /\ pc = "envcheck"
    /\ IF EnvError(env) # NoError
       THEN /\ Raise(EnvError(env))
            /\ buildRegion' =
                IF EnvError(env) = RegionAccountError
                THEN env["CDK_DEFAULT_REGION"] ELSE buildRegion
            /\ buildAccount' =
                IF EnvError(env) = RegionAccountError
                THEN DeriveAccount(env) ELSE buildAccount
       ELSE /\ buildRegion' = env["CDK_DEFAULT_REGION"]
            /\ buildAccount' = DeriveAccount(env)
            /\ pc' = "wire"
            /\ UNCHANGED <<cur, err, status, plan>>
    /\ UNCHANGED <<platformVars, env, inst, nInst, fields, odmdBuilds, cons, wireCount,
                   readLog, callerVars>>

\* wireCount after the environments in `done` have returned from a call
Count(wc, done) ==
    [e \in Envers |-> wc[e] + Cardinality({k \in DOMAIN done : done[k] = e})]

\* the next wireConsuming() call of the wiring pass
CtorWire ==
    /\ pc = "wire"
    /\ \E b \in {Head(plan)} :
       \E r \in {Build_wireConsuming(cons[cur], b, fields[cur])} :
           /\ cons' = [cons EXCEPT ![cur] = r.cons]
           /\ wireCount' = [wireCount EXCEPT ![cur] = Count(@, r.done)]
           /\ readLog' = readLog \cup LogReads(cur, b, r.reads)
           /\ IF r.threw
              THEN Raise(TypeError)
              ELSE /\ plan' = Tail(plan)
                   /\ pc' = IF Tail(plan) = <<>> THEN "log" ELSE "wire"
                   /\ UNCHANGED <<cur, err, status>>
    /\ UNCHANGED <<platformVars, env, inst, nInst, fields, odmdBuilds, buildRegion,
                   buildAccount, callerVars>>

\* this.odmdBuilds.forEach(build => console.log(build.buildId)) and return
CtorReturn ==
    /\ pc = "log"
    /\ pc' = "idle"
    /\ status' = [status EXCEPT ![cur] = "constructed"]
    /\ cur' = 0
    /\ UNCHANGED <<platformVars, env, inst, nInst, err, fields, odmdBuilds, cons, wireCount,
                   plan, buildRegion, buildAccount, readLog, callerVars>>

(***************************************************************************)
(* Callers of the registry                                                 *)
(***************************************************************************)
\* the value a read of consumer field f of environment e yields
FieldValue(c, e, f) ==
    IF IsListField(f)
    THEN IF c[e][f] = <<>> THEN "emptyArray" ELSE "array"
    ELSE IF c[e][f] = <<>> THEN "undefined" ELSE "consumer"

\* a caller reads RagContracts.inst.<build>.<enver>.<field>
ReadConsumer ==
    /\ pc = "idle"
    /\ inst # 0
    /\ \E e \in Envers : \E f \in ConsumerFields(e[1]) :
        /\ e[1] \in fields[inst]
        /\ lastRead' = [state |-> EnverState(inst, e),
                        value |-> FieldValue(cons[inst], e, f)]
    /\ UNCHANGED <<platformVars, env, inst, fields, odmdBuilds, cons, wireCount, readLog,
                   lastWire, extraWire, ctorVars>>

\* some consumer array or field holds more consumers in d than in c
Grew(c, d) ==
    \E e \in Envers : \E f \in ConsumerFields(e[1]) :
        Len(d[e][f]) > Len(c[e][f])

\* a caller calls wireConsuming() on a build of RagContracts.inst (on the
\* user-auth environment for user-auth)
CallWireConsuming ==
    /\ pc = "idle"
    /\ inst # 0
    /\ extraWire < MaxExtraWire
    /\ \E b \in {x \in Builds : HasWireConsuming(x)} :
        \E r \in {Build_wireConsuming(cons[inst], b, fields[inst])} :
            /\ b \in fields[inst]
            /\ cons' = [cons EXCEPT ![inst] = r.cons]
            /\ wireCount' = [wireCount EXCEPT ![inst] = Count(@, r.done)]
            /\ lastWire' = [build |-> b,
                            wiredBefore |-> BuildWired(wireCount[inst], b),
                            threw |-> r.threw,
                            grew |-> Grew(cons[inst], r.cons)]
    /\ extraWire' = extraWire + 1
    /\ UNCHANGED <<platformVars, env, inst, fields, odmdBuilds, readLog, lastRead,
                   ctorVars>>

\* the constructor alone
Next ==
    \/ CtorSuper
    \/ CtorSingleton
    \/ CtorBuild
    \/ CtorDupCheck
    \/ CtorEnvCheck
    \/ CtorWire
    \/ CtorReturn

Spec == Init /\ [][Next]_vars

\* the environment the repository's tests construct the registry in
TestEnv ==
    [v \in EnvVars |->
        CASE v = "CDK_CLI_VERSION" -> Str(<<"2">>)
          [] v = "CDK_DEFAULT_REGION" -> Str(<<"r">>)
          [] v = "CDK_DEFAULT_ACCOUNT" -> Str(<<"1">>)
          [] OTHER -> Unset]

\* between two constructor calls the caller repairs process.env
FixEnvironment ==
    /\ pc = "idle"
    /\ env # TestEnv
    /\ env' = TestEnv
    /\ UNCHANGED <<platformVars, inst, fields, odmdBuilds, cons, wireCount,
                   readLog, ctorVars, callerVars>>

NextRetry ==
    \/ Next
    \/ FixEnvironment

SpecRetry == Init /\ [][NextRetry]_vars

\* the constructor and the callers of the registry it leaves in
\* RagContracts.inst, in the tests' environment or with CDK_CLI_VERSION
\* missing
InitCallers ==
    /\ Init
    /\ env \in {TestEnv, [TestEnv EXCEPT !["CDK_CLI_VERSION"] = Unset]}

NextCallers ==
    \/ Next
    \/ ReadConsumer
    \/ CallWireConsuming

SpecCallers == InitCallers /\ [][NextCallers]_vars

(***************************************************************************)
(* Builds constructed and wired in an order other than the registry's      *)
(*                                                                         *)
(* The build classes take the registry as `scope` and read its build       *)
(* fields; a constructor that creates and wires them in another order      *)
(* runs the same build constructors and the same wireConsuming() methods.  *)
(***************************************************************************)
\* no environment of build b has had a wireConsuming() call return
Unwired(wc, b) == \A e \in Range(EnversOf(b)) : wc[e] = 0

\* this.<build> = new <Build>(this) for any build not created yet
OrderConstruct ==
    /\ pc = "builds"
    /\ \E b \in ServiceBuilds \ fields[cur] :
       \E r \in {initializeEnvers(cons[cur], b, fields[cur])} :
            /\ odmdBuilds' = [odmdBuilds EXCEPT ![cur] = Append(@, b)]
            /\ cons' = [cons EXCEPT ![cur] = r.cons]
            /\ readLog' = readLog \cup LogReads(cur, b, r.reads)
            /\ lastOp' = [op |-> "new", build |-> b, threw |-> r.threw]
            /\ IF r.threw
               THEN /\ Raise(TypeError)
                    /\ UNCHANGED fields
               ELSE /\ fields' = [fields EXCEPT ![cur] = @ \cup {b}]
                    /\ UNCHANGED <<cur, pc, err, status, plan>>
    /\ UNCHANGED <<env, inst, nInst, wireCount, buildRegion, buildAccount,
                   callerVars, deployed, trustVars>>

\* this.<build>.wireConsuming() for any build created and not yet wired
\* (on the user-auth environment for user-auth)
OrderWire ==
    /\ pc = "builds"
    /\ \E b \in {x \in fields[cur] :
                    HasWireConsuming(x) /\ Unwired(wireCount[cur], x)} :
       \E r \in {Build_wireConsuming(cons[cur], b, fields[cur])} :
            /\ cons' = [cons EXCEPT ![cur] = r.cons]
            /\ wireCount' = [wireCount EXCEPT ![cur] = Count(@, r.done)]
            /\ readLog' = readLog \cup LogReads(cur, b, r.reads)
            /\ lastOp' = [op |-> "wire", build |-> b, threw |-> r.threw]
            /\ IF r.threw
               THEN Raise(TypeError)
               ELSE UNCHANGED <<cur, pc, err, status, plan>>
    /\ UNCHANGED <<env, inst, nInst, fields, odmdBuilds, buildRegion,
                   buildAccount, callerVars, deployed, trustVars>>

InitOrder ==
    /\ Init
    /\ env = TestEnv

NextOrder ==
    \/ CtorSuper
    \/ CtorSingleton
    \/ OrderConstruct
    \/ OrderWire

SpecOrder == InitOrder /\ [][NextOrder]_vars

(***************************************************************************)
(* First-time deployment of the wired graph                                *)
(***************************************************************************)
\* the consumers environment e holds, in plain fields and in arrays
ConsumersOf(c, e) == UNION {Range(c[e][f]) : f \in ConsumerFields(e[1])}

\* environment e can deploy when d is deployed: each of its consumers
\* targets a deployed environment or declares defaultIfAbsent (a consumer
\* created on an undefined producer targets no environment)
CanDeploy(c, e, d) ==
    \A x \in ConsumersOf(c, e) :
        \/ x.producer.owner \in d \cup {NoEnver}
        \/ x.defaultIfAbsent # "undefined"

\* the platform deploys an environment of the constructed registry
Deploy ==
    /\ inst # 0
    /\ status[inst] = "constructed"
    /\ \E e \in Envers \ deployed :
        /\ CanDeploy(cons[inst], e, deployed)
        /\ deployed' = deployed \cup {e}
    /\ UNCHANGED <<env, inst, fields, odmdBuilds, cons, wireCount, readLog,
                   ctorVars, callerVars, lastOp, trustVars>>

NextDeploy ==
    \/ Next
    \/ Deploy

\* the platform keeps deploying while some environment can deploy
SpecDeploy ==
    /\ InitOrder
    /\ [][NextDeploy]_vars
    /\ WF_vars(Deploy)

(***************************************************************************)
(* Hierarchical role names and wildcard resource policies                  *)
(***************************************************************************)
\* the role-name prefixes the services may use
ServicePrefixes ==
    {"rag/embedding/", "rag/document-processing/", "rag/doc-processing/",
     "rag/document-ingestion/", "rag/doc-ingestion/", "rag/vector-storage/",
     "rag/knowledge-retrieval/", "rag/generation/"}

\* the consumer prefixes of the cross-service access matrix
TrustedPrefixes ==
    {"rag/embedding/", "rag/vector-storage/", "rag/knowledge-retrieval/",
     "rag/generation/"}

Components == {"s3-poller", "processor", "dlq-handler"}
Accounts == {"111", "222"}
Regions == {"us-east-1", "us-west-2"}

\* a statement is added by a stack of one account and region and trusts
\* the roles under one service prefix
Policies == [prefix : TrustedPrefixes, account : Accounts, region : Regions]

\* a role is created by a stack of one account and region
Principals == [prefix : ServicePrefixes, component : Components,
               account : Accounts, region : Regions]

\* roleName: `rag/embedding/s3-poller-${this.account}-${this.region}`
RoleName(r) == r.prefix \o r.component \o "-" \o r.account \o "-" \o r.region

\* the ARN of a role of account r.account
PrincipalArn(r) == "arn:aws:iam::" \o r.account \o ":role/" \o RoleName(r)

PrincipalArnPattern_AnyService(p) ==
    "arn:aws:iam::" \o p.account \o ":role/rag/*"

\* `arn:aws:iam::${this.account}:role/rag/embedding/*`
PrincipalArnPattern(p) ==
    "arn:aws:iam::" \o p.account \o ":role/" \o p.prefix \o "*"

\* the StringLike condition operator on v[i..] and pattern[j..]: `*` stands
\* for any run of characters, `?` for any one character
RECURSIVE StringLikeFrom(_, _, _, _)
StringLikeFrom(v, pattern, i, j) ==
    IF j > Len(pattern)
    THEN i > Len(v)
    ELSE IF SubSeq(pattern, j, j) = "*"
         THEN \E k \in i..(Len(v) + 1) : StringLikeFrom(v, pattern, k, j + 1)
         ELSE /\ i <= Len(v)
              /\ SubSeq(pattern, j, j) \in {"?", SubSeq(v, i, i)}
              /\ StringLikeFrom(v, pattern, i + 1, j + 1)

StringLike(v, pattern) == StringLikeFrom(v, pattern, 1, 1)

\* principals: [new iam.AccountPrincipal(this.account)]
AccountPrincipal(p, r) == r.account = p.account

\* the statement p allows a request of role r
PolicyStatement(p, r) ==
    /\ AccountPrincipal(p, r)
    /\ StringLike(PrincipalArn(r), PrincipalArnPattern(p))

\* bucket.addToResourcePolicy(new iam.PolicyStatement({...}))
AddToResourcePolicy ==
    /\ \E p \in Policies : policy' = p
    /\ principal' = NoPrincipal
    /\ allowed' = FALSE
    /\ UNCHANGED <<env, inst, fields, odmdBuilds, cons, wireCount, readLog,
                   ctorVars, callerVars, lastOp, deployed, role, access,
                   accountVars>>

\* a role requests the resource the statement is attached to
AccessResource ==
    /\ policy # NoPolicy
    /\ \E r \in Principals :
        /\ principal' = r
        /\ allowed' = PolicyStatement(policy, r)
    /\ UNCHANGED <<env, inst, fields, odmdBuilds, cons, wireCount, readLog,
                   ctorVars, callerVars, lastOp, deployed, policy, role,
                   access, accountVars>>

NextTrust ==
    \/ AddToResourcePolicy
    \/ AccessResource

SpecTrust == InitOrder /\ [][NextTrust]_vars

\* the role-name prefixes of the naming rules, per build
AllowedPrefixes(b) ==
    IF b = ragEmbeddingBuild THEN {"rag/embedding/"}
    ELSE IF b = ragDocumentProcessingBuild
         THEN {"rag/document-processing/", "rag/doc-processing/"}
    ELSE IF b = ragDocumentIngestionBuild
         THEN {"rag/document-ingestion/", "rag/doc-ingestion/"}
    ELSE IF b = ragVectorStorageBuild THEN {"rag/vector-storage/"}
    ELSE IF b = ragKnowledgeRetrievalBuild THEN {"rag/knowledge-retrieval/"}
    ELSE IF b = ragGenerationBuild THEN {"rag/generation/"}
    ELSE {}

ServiceEnvers == UNION {Range(EnversOf(b)) : b \in ServiceBuilds}

\* the environment constructors take the owner build, account, region and
\* revision; none of them is handed or checks a role name
Enver_rejectsRoleName(e, prefix, component) == FALSE

\* the stack of environment e instantiates the contracts and creates a role
\* new iam.Role(this, ..., {roleName: `<prefix><component>-...`})
CreateRole ==
    /\ \E e \in ServiceEnvers, p \in ServicePrefixes, c \in Components :
        role' = [owner |-> e, prefix |-> p, component |-> c,
                 rejected |-> Enver_rejectsRoleName(e, p, c)]
    /\ UNCHANGED <<env, inst, fields, odmdBuilds, cons, wireCount, readLog,
                   ctorVars, callerVars, lastOp, deployed, policy, principal,
                   allowed, access, accountVars>>

NextNaming == CreateRole

SpecNaming == InitOrder /\ [][NextNaming]_vars

(***************************************************************************)
(* Reads of producer children                                              *)
(***************************************************************************)
MaxChildIndex == 6

registryVars == <<env, inst, fields, odmdBuilds, cons, wireCount, readLog,
                  ctorVars, callerVars, lastOp, deployed, accountVars>>

\* producer.<getter> on a producer of environment e
ReadAccessor ==
    /\ \E e \in ServiceEnvers :
       \E g \in Accessors(e[1]) :
       \E n \in {Accessor(g, e)} :
        access' = [via |-> "getter", owner |-> e, name |-> g,
                   producer |-> n.producer, i |-> 0, j |-> 0, node |-> n]
    /\ UNCHANGED <<registryVars, policy, principal, allowed, role>>

\* producer.children![i] on producer p of environment e
ReadChild ==
    /\ \E e \in Envers, i \in 0..MaxChildIndex :
       \E p \in ProducersOf(e[1]) :
        access' = [via |-> "child", owner |-> e, name |-> "none",
                   producer |-> p, i |-> i, j |-> 0, node |-> Child(e, p, i)]
    /\ UNCHANGED <<registryVars, policy, principal, allowed, role>>

\* producer.children![i].children![j] on producer p of environment e
ReadGrandChild ==
    /\ \E e \in Envers, i \in 0..MaxChildIndex, j \in 0..MaxChildIndex :
       \E p \in ProducersOf(e[1]) :
        access' = [via |-> "grandchild", owner |-> e, name |-> "none",
                   producer |-> p, i |-> i, j |-> j,
                   node |-> GrandChild(e, p, i, j)]
    /\ UNCHANGED <<registryVars, policy, principal, allowed, role>>

NextAccess ==
    \/ ReadAccessor
    \/ ReadChild
    \/ ReadGrandChild

SpecAccess == InitOrder /\ [][NextAccess]_vars

(***************************************************************************)
(* allAccounts                                                             *)
(***************************************************************************)
\* Object.entries(a): the [name, number] pairs in key order
ObjectEntries(a) ==
    [k \in DOMAIN AccountNames |-> <<AccountNames[k], a[AccountNames[k]]>>]

\* Object.values(a)
ObjectValues(a) == [k \in DOMAIN AccountNames |-> a[AccountNames[k]]]

\* Array.from(arr.keys()): the indices of the array
ArrayKeys(arr) == [k \in DOMAIN arr |-> k - 1]

\* Array.from(arr.values()): the elements of the array
ArrayValues(arr) == [k \in DOMAIN arr |-> arr[k]]

\* the allAccounts getter on a registry whose accounts are a
allAccounts(a) ==
    IF Len(ArrayKeys(ObjectEntries(a))) # Len(ArrayValues(ObjectEntries(a)))
    THEN [threw |-> TRUE, value |-> <<>>]
    ELSE [threw |-> FALSE, value |-> ObjectValues(a)]

\* a caller reads ragContracts.allAccounts; a value once computed is kept
\* in _allAccounts
GetAllAccounts ==
    /\ allAccountsResult' =
            IF allAccountsResult # NoResult /\ ~allAccountsResult.threw
            THEN allAccountsResult
            ELSE allAccounts(accounts)
    /\ UNCHANGED <<env, inst, fields, odmdBuilds, cons, wireCount, readLog,
                   ctorVars, callerVars, lastOp, deployed, policy, principal, allowed, role, access,
                   accounts>>

\* registries over every assignment of account numbers to the account
\* names, the one of the accounts getter included
InitAccounts ==
    /\ InitRegistry
    /\ env = TestEnv
    /\ accounts \in [Range(AccountNames) -> AccountNumbers]
    /\ allAccountsResult = NoResult

NextAccounts == GetAllAccounts

SpecAccounts == InitAccounts /\ [][NextAccounts]_vars

(***************************************************************************)
(* Properties                                                              *)
(***************************************************************************)
\* instance i has left its constructor, normally or by an error
Finished(i) == status[i] \in {"constructed", "failed"}

\* no build occurs twice in the sequence bs
NoDuplicates(bs) == Cardinality(Range(bs)) = Len(bs)

\* instance i is past the duplicate check of its constructor
PastDupCheck(i) ==
    \/ status[i] = "constructed"
    \/ cur = i /\ pc \in {"envcheck", "wire", "log"}

\* instance i has reached the wiring pass of its constructor
ReachedWiring(i) ==
    \/ status[i] = "constructed"
    \/ cur = i /\ pc \in {"wire", "log"}
    \/ \E e \in Envers : wireCount[i][e] > 0

\* C1: constructing a second registry in the same process always raises the
\* singleton error, and RagContracts.inst still returns the first instance
C1_Singleton ==
    /\ \A i \in Instances : i >= 2 /\ Finished(i) => status[i] = "failed"
    /\ nInst >= 2 /\ pc = "idle" => err = SingletonError /\ inst = 1
    /\ nInst >= 1 /\ pc # "singleton" => inst = 1

\* a second constructor call has been made after the first one succeeded
C1_Witness ==
    /\ nInst = 2
    /\ pc = "idle"
    /\ status[1] = "constructed"
    /\ status[2] = "failed"

AllConsumersSet(i, e) ==
    \A f \in ConsumerFields(e[1]) : cons[i][e][f] # <<>>

\* C3: during a successful construction the registry invokes
\* wireConsuming() exactly once on every build that declares consumers,
\* the generation build included, so that afterwards every environment is
\* Wired with all of its declared consumers set
C3_AllWiredOnce ==
    \A i \in Instances :
        status[i] = "constructed" =>
            \A e \in Envers :
                /\ HasWireConsuming(e[1]) => wireCount[i][e] = 1
                /\ EnverState(i, e) = "Wired"
                /\ AllConsumersSet(i, e)

\* C4: when the constructor raises, no partially built registry is exposed
\* to callers, RagContracts.inst included
C4_NoPartialRegistryExposed ==
    pc = "idle" /\ inst # 0 => status[inst] = "constructed"

\* C5: no two builds of a registry share a name, and constructing a
\* registry whose build list holds a duplicate raises
C5_UniqueBuilds ==
    /\ [](\A i \in Instances : PastDupCheck(i) => NoDuplicates(odmdBuilds[i]))
    /\ [][pc = "dupcheck" /\ ~NoDuplicates(odmdBuilds[cur])
            => pc' = "idle" /\ err' = DuplicateError
               /\ status'[cur] = "failed"]_vars

\* the constructor has raised on a duplicate registration
C5_Witness ==
    /\ pc = "idle"
    /\ err = DuplicateError
    /\ status[1] = "failed"
    /\ odmdBuilds[1] # <<>>

\* C6: with a duplicate registration present the constructor fails before
\* any wireConsuming() call: a registry with duplicates never starts wiring
C6_NoWiringWithDuplicates ==
    /\ \A i \in Instances : ReachedWiring(i) => NoDuplicates(odmdBuilds[i])
    /\ \A i \in Instances :
        (cur = i /\ ~NoDuplicates(odmdBuilds[i])) \/ (i = inst /\ err = DuplicateError)
            => /\ \A e \in Envers : wireCount[i][e] = 0
               /\ \A r \in readLog : FALSE

\* the constructor has raised on two duplicated builds and nothing is wired
C6_Witness ==
    /\ pc = "idle"
    /\ err = DuplicateError
    /\ Len(odmdBuilds[1]) >= 2
    /\ \A e \in Envers : wireCount[1][e] = 0
    /\ \A e \in Range(EnversOf(ragDocumentIngestionBuild)) :
        \A f \in ConsumerFields(e[1]) : cons[1][e][f] = <<>>

\* the account the process environment provides: CDK_DEFAULT_ACCOUNT, or
\* failing that the account part of the CodeBuild ARN
\* (arn:aws:codebuild:region:account:build/...)
AccountOf(e) ==
    IF Truthy(e["CDK_DEFAULT_ACCOUNT"]) THEN e["CDK_DEFAULT_ACCOUNT"]
    ELSE IF e["CODEBUILD_BUILD_ARN"].set
            /\ Len(Split(e["CODEBUILD_BUILD_ARN"].val, ":")) >= 5
    THEN Str(Split(e["CODEBUILD_BUILD_ARN"].val, ":")[5])
    ELSE Unset

\* C7: construction raises whenever the region or the account cannot be
\* obtained from the process environment, and never proceeds to wiring
\* with an absent, empty or defaulted account or region
C7_AccountAndRegionRequired ==
    /\ [](\A i \in Instances :
            /\ ReachedWiring(i) =>
                /\ Truthy(env["CDK_DEFAULT_REGION"])
                /\ Truthy(AccountOf(env))
            /\ cur = i /\ pc \in {"wire", "log"} =>
                /\ buildRegion = env["CDK_DEFAULT_REGION"]
                /\ buildAccount = AccountOf(env))
    /\ [][pc = "envcheck"
          /\ ~(Truthy(env["CDK_DEFAULT_REGION"]) /\ Truthy(AccountOf(env)))
            => pc' = "idle" /\ status'[cur] = "failed"
               /\ err' \in {CliVersionError, CodeBuildArnError,
                            RegionAccountError}]_vars

\* the constructor has raised because the ARN it fell back to holds no
\* account
C7_Witness ==
    /\ pc = "idle"
    /\ err = RegionAccountError
    /\ status[1] = "failed"
    /\ Truthy(env["CDK_DEFAULT_REGION"])
    /\ ~Truthy(env["CDK_DEFAULT_ACCOUNT"])
    /\ Truthy(env["CODEBUILD_BUILD_ARN"])

\* C8: a second wireConsuming() call on a build that is already wired
\* raises instead of creating or appending consumers again
C8_SecondWireRaises ==
    lastWire.wiredBefore => lastWire.threw /\ ~lastWire.grew

\* C9: reading a consumer of an environment that is not yet Wired raises
\* rather than yielding an empty or undefined value
C9_ReadBeforeWiredRaises ==
    lastRead.state = "ProducersInitialized"
        => lastRead.value \notin {"undefined", "emptyArray"}

\* C10: wireConsuming() never completes normally while leaving a consumer
\* unset because the producer it needs was not found
C10_NoSilentlyUnsetConsumer ==
    \A i \in Instances : \A e \in Envers :
        HasWireConsuming(e[1]) /\ wireCount[i][e] > 0 => AllConsumersSet(i, e)

\* some consumer field of instance i holds a consumer
SomeConsumerCreated(i) ==
    \E e \in Envers : \E f \in ConsumerFields(e[1]) : cons[i][e][f] # <<>>

\* C11: every consumer is created during the wiring pass, after the
\* producers of all service builds exist; no consumer is created while
\* service builds are still being constructed
C11_ConsumersOnlyInWiringPass ==
    \A i \in Instances :
        SomeConsumerCreated(i) =>
            /\ ServiceBuilds \subseteq fields[i]
            /\ ReachedWiring(i)

\* the consumer held by field f of environment e of the first instance
\* targets producer node n
Consumes(e, f, n) ==
    /\ cons[1][e][f] # <<>>
    /\ cons[1][e][f][1].producer = n

IngestionWired(i) ==
    \E e \in Range(EnversOf(ragDocumentIngestionBuild)) : wireCount[i][e] > 0

\* C13: in the registry's wiring pass the ingestion build's
\* wireConsuming() is invoked last, after the wireConsuming() of every
\* other service it consumes from has completed
C13_IngestionWiredLast ==
    /\ \A r \in readLog :
        r.by = ragDocumentIngestionBuild /\ HasWireConsuming(r.of)
            => r.ofWired
    /\ \A i \in Instances :
        IngestionWired(i) =>
            /\ cur = i => pc = "log"
            /\ \A k \in DOMAIN WiringOrder :
                BuildWired(wireCount[i], WiringOrder[k])

\* the wiring pass has ended with ingestion wired, having read from
\* vector storage, processing and user-auth
C13_Witness ==
    /\ pc = "log"
    /\ BuildWired(wireCount[cur], ragDocumentIngestionBuild)
    /\ \A b \in {ragVectorStorageBuild, ragDocumentProcessingBuild, userAuth} :
        \E r \in readLog : r.by = ragDocumentIngestionBuild /\ r.of = b

\* consumer field f of environment e of instance i holds a consumer of
\* the statusApi producer of some environment of build b
HoldsStatusApiOf(i, e, f, b) ==
    /\ cons[i][e][f] # <<>>
    /\ cons[i][e][f][1].producer.owner[1] = b
    /\ cons[i][e][f][1].producer.producer = "statusApi"

\* C14: after a successful construction every ingestion environment, dev
\* and prod, holds a status-API consumer for document processing, for
\* embedding and for vector storage
C14_IngestionAggregatesStatus ==
    \A i \in Instances :
        status[i] = "constructed" =>
            \A e \in Range(EnversOf(ragDocumentIngestionBuild)) :
                /\ HoldsStatusApiOf(i, e, "processingStatusApiEndpoint",
                        ragDocumentProcessingBuild)
                /\ HoldsStatusApiOf(i, e, "embeddingStatusApiEndpoint",
                        ragEmbeddingBuild)
                /\ HoldsStatusApiOf(i, e, "vectorStorageStatusApiEndpoint",
                        ragVectorStorageBuild)

TargetsOf(c, S) ==
    {x.producer.owner : x \in UNION {ConsumersOf(c, e) : e \in S}} \ {NoEnver}

RECURSIVE ClosureOf(_, _)
\* the environments reachable from S along consumer-to-producer edges
ClosureOf(c, S) ==
    LET T == S \cup TargetsOf(c, S)
    IN  IF T = S THEN S ELSE ClosureOf(c, T)

\* following consumer-to-producer edges from e leads back to e
OnCycle(c, e) == e \in ClosureOf(c, TargetsOf(c, {e}))

\* C18: the dependency graph the contracts define has no circular
\* dependency: following consumer-to-producer edges between environments
\* never leads from an environment back to itself
C18_NoCircularDependencies ==
    \A i \in Instances :
        status[i] = "constructed" =>
            \A e \in Envers : ~OnCycle(cons[i], e)

\* the request of `principal` has been evaluated against `policy`
Requested == principal # NoPrincipal

\* C19: under the naming scheme {service}/{component}-{account}-{region}, a
\* wildcard statement for one service prefix added in one account allows
\* exactly the roles under that prefix in that account; in particular the
\* statement for embedding/* in account 111 allows
\* embedding/s3-poller-111-us-east-1 and allows neither
\* document-processing/processor-111-us-east-1 nor
\* embedding/processor-222-us-east-1
C19_WildcardMatchesServiceAndAccount ==
    Requested =>
        /\ allowed <=> /\ principal.prefix = policy.prefix
                       /\ principal.account = policy.account
        /\ (policy.prefix = "rag/embedding/" /\ policy.account = "111") =>
            /\ RoleName(principal) = "rag/embedding/s3-poller-111-us-east-1"
                  => allowed
            /\ RoleName(principal)
                    = "rag/document-processing/processor-111-us-east-1"
                  => ~allowed
            /\ RoleName(principal) = "rag/embedding/processor-222-us-east-1"
                  => ~allowed

C19_Witness ==
    /\ policy.prefix = "rag/embedding/"
    /\ policy.account = "111"
    /\ RoleName(principal) = "rag/embedding/s3-poller-111-us-east-1"
    /\ allowed

\* C20: a wildcard statement is scoped by region as well as by account: a
\* role under the trusted prefix and of the granting account, but of another
\* region than the statement's stack, is not allowed
C20_GrantScopedByRegion ==
    (/\ Requested
     /\ principal.prefix = policy.prefix
     /\ principal.account = policy.account
     /\ principal.region # policy.region) => ~allowed

\* C21: a role whose name lies outside the hierarchical namespace of the
\* service that creates it is rejected when the contracts are constructed
C21_OutsideNamespaceIsFatal ==
    (role # NoRole /\ role.prefix \notin AllowedPrefixes(role.owner[1]))
        => role.rejected

UpperCase == "ABCDEFGHIJKLMNOPQRSTUVWXYZ"
LowerCase == "abcdefghijklmnopqrstuvwxyz"

\* the character c in lower case
ToLower(c) ==
    IF \E k \in 1..26 : SubSeq(UpperCase, k, k) = c
    THEN LET k == CHOOSE x \in 1..26 : SubSeq(UpperCase, x, x) = c
         IN  SubSeq(LowerCase, k, k)
    ELSE c

RECURSIVE LettersFrom(_, _)
\* the characters of s[k..] in lower case, hyphens left out
LettersFrom(s, k) ==
    IF k > Len(s) THEN ""
    ELSE IF SubSeq(s, k, k) = "-" THEN LettersFrom(s, k + 1)
    ELSE ToLower(SubSeq(s, k, k)) \o LettersFrom(s, k + 1)

EndsWith(s, t) ==
    /\ Len(t) <= Len(s)
    /\ SubSeq(s, Len(s) - Len(t) + 1, Len(s)) = t

\* getter g is named for path segment seg: letter case and hyphens aside, g
\* is seg or the tail of seg
NamedFor(g, seg) == EndsWith(LettersFrom(seg, 1), LettersFrom(g, 1))

\* the declared path of the child read at access.i (and access.j)
DeclaredPath(cs, i, j, deep) ==
    IF i + 1 > Len(cs) THEN <<>>
    ELSE IF ~deep THEN <<cs[i + 1].pathPart>>
    ELSE IF j + 1 > Len(cs[i + 1].children) THEN <<>>
    ELSE <<cs[i + 1].pathPart, cs[i + 1].children[j + 1]>>

C23_NoSelfReference ==
    \A i \in Instances : \A e \in Envers :
        \A x \in ConsumersOf(cons[i], e) :
            /\ x.owner = e
            /\ x.producer.owner # e

C23_Witness ==
    \E i \in Instances :
        /\ status[i] = "constructed"
        /\ ConsumersOf(cons[i], userAuthEnver) # {}
        /\ ConsumersOf(cons[i], <<ragDocumentIngestionBuild, "dev">>) # {}
        /\ ConsumersOf(cons[i], <<ragVectorStorageBuild, "prod">>) # {}

\* the consumers in list field f of the user-auth environment target, in
\* order, producer p of each document-ingestion environment
TargetsEachIngestion(c, f, p) ==
    LET list == EnversOf(ragDocumentIngestionBuild)
    IN  /\ Len(c[userAuthEnver][f]) = Len(list)
        /\ \A k \in DOMAIN list :
            /\ c[userAuthEnver][f][k].owner = userAuthEnver
            /\ c[userAuthEnver][f][k].producer = Node(list[k], p, <<>>)

\* C24: after a successful registry construction the user-auth
\* environment's callbackUrls and logoutUrls are non-empty and hold exactly
\* one consumer per document-ingestion environment, targeting that
\* environment's authCallbackUrl and logoutUrl producer
C24_AuthUrlsPerIngestionEnver ==
    \A i \in Instances :
        status[i] = "constructed" =>
            /\ cons[i][userAuthEnver]["callbackUrls"] # <<>>
            /\ cons[i][userAuthEnver]["logoutUrls"] # <<>>
            /\ TargetsEachIngestion(cons[i], "callbackUrls", "authCallbackUrl")
            /\ TargetsEachIngestion(cons[i], "logoutUrls", "logoutUrl")

C24_Witness ==
    \E i \in Instances :
        /\ status[i] = "constructed"
        /\ Len(cons[i][userAuthEnver]["callbackUrls"]) = 2
        /\ cons[i][userAuthEnver]["logoutUrls"][2].producer.owner
                = <<ragDocumentIngestionBuild, "prod">>

\* the five wiring calls of the registry
WiringCalls == Range(WiringOrder)

\* C25: with every build constructed, over all orders of the five wiring
\* calls a call raises exactly when it is ingestion's and vector storage has
\* not been wired yet, so the pass completes exactly when vector storage is
\* wired before ingestion; the order of the other calls does not matter
C25_OnlyVectorStorageBeforeIngestion ==
    (/\ lastOp.op = "wire"
     /\ lastOp.build \in WiringCalls
     /\ ServiceBuilds \subseteq fields[1])
        => (lastOp.threw <=>
                /\ lastOp.build = ragDocumentIngestionBuild
                /\ Unwired(wireCount[1], ragVectorStorageBuild))

\* the pass has completed in an order other than the registry's: the
\* processing build was wired last, after ingestion
C25_Witness ==
    /\ lastOp = [op |-> "wire", build |-> ragDocumentProcessingBuild,
                 threw |-> FALSE]
    /\ ServiceBuilds \subseteq fields[1]
    /\ \A b \in WiringCalls : BuildWired(wireCount[1], b)

\* C26: stage consistency: every consumer owned by a dev or prod
\* environment targets a producer of the environment of the same stage of
\* the upstream build, consumers of the shared user-auth environment aside
C26_StageConsistency ==
    \A i \in Instances : \A e \in ServiceEnvers :
        \A x \in ConsumersOf(cons[i], e) :
            (x.producer.owner \in ServiceEnvers)
                => x.producer.owner[2] = e[2]

\* the environments targeted from S by consumers not declared with
\* trigger 'no'
ReactiveTargetsOf(c, S) ==
    {x.producer.owner :
        x \in {y \in UNION {ConsumersOf(c, e) : e \in S} : y.trigger # "no"}}
    \ {NoEnver}

RECURSIVE ReactiveClosureOf(_, _)
ReactiveClosureOf(c, S) ==
    LET T == S \cup ReactiveTargetsOf(c, S)
    IN  IF T = S THEN S ELSE ReactiveClosureOf(c, T)

\* C27: every cycle of consumer edges between environments contains a
\* consumer declared with trigger 'no': following only the other consumers
\* never leads from an environment back to itself
C27_EveryCycleHasNoTrigger ==
    \A i \in Instances :
        status[i] = "constructed" =>
            \A e \in Envers :
                e \notin ReactiveClosureOf(cons[i],
                                           ReactiveTargetsOf(cons[i], {e}))

\* C28: once the constructor has raised after its singleton check passed,
\* RagContracts.inst stays the failed instance, and every later constructor
\* call raises the singleton error and builds nothing, also after the
\* environment has been repaired
C28_FailedInstanceBlocksRetries ==
    /\ [](\A i \in Instances :
            (inst # 0 /\ status[inst] = "failed" /\ i > inst /\ Finished(i))
                => /\ status[i] = "failed"
                   /\ odmdBuilds[i] = BaseBuildOrder
                   /\ (nInst = i /\ pc = "idle" => err = SingletonError))
    /\ [][inst # 0 /\ status[inst] = "failed"
            => inst' = inst /\ status'[inst] = "failed"]_vars

\* the first construction failed on the environment alone, the environment
\* was repaired, and the next construction raised the singleton error
C28_Witness ==
    /\ inst = 1
    /\ status[1] = "failed"
    /\ NoDuplicates(odmdBuilds[1])
    /\ env = TestEnv
    /\ nInst = 2
    /\ pc = "idle"
    /\ err = SingletonError

\* C29: while the constructor creates the service builds, no build
\* constructor or initializeEnvers reads a build field that is still
\* unassigned, so creating a build never raises: ingestion is assigned
\* before processing is created, and processing and user-auth before
\* embedding
C29_BuildsConstructedInDependencyOrder ==
    /\ [](/\ err # TypeError
          /\ \A i \in Instances :
                /\ ragDocumentProcessingBuild \in fields[i]
                        => ragDocumentIngestionBuild \in fields[i]
                /\ ragEmbeddingBuild \in fields[i]
                        => {ragDocumentProcessingBuild, userAuth}
                                \subseteq fields[i])
    /\ [][pc = "builds" => pc' \in {"builds", "dupcheck"}]_vars

\* every service build of the first instance has been created
C29_Witness ==
    /\ cur = 1
    /\ pc = "dupcheck"
    /\ ServiceBuilds \subseteq fields[1]
    /\ \A e \in Range(EnversOf(ragEmbeddingBuild)) :
            cons[1][e]["processedContentSubscription"] # <<>>

\* two account names map to the same account number
SharedAccountNumber(a) ==
    \E m, n \in DOMAIN a : m # n /\ a[m] = a[n]

====
